---- MODULE Spec2Model ----
(***************************************************************************)
(* State-machine model of lbuild's configuration core:                     *)
(*   src/lbuild/exception.py   BlobException, OptionFormatException        *)
(*   src/lbuild/module.py      verify_module_name, OptionNameResolver,     *)
(*                             Module                                      *)
(*   src/lbuild/repository.py  OptionNameResolver, Repository              *)
(*                                                                         *)
(* Python strings are sequences of one-character strings, dicts are        *)
(* insertion-ordered sequences of [k, v] items, and every call records its *)
(* argument, its outcome (return value or raised exception) and the state  *)
(* it started from in the variable "last".                                 *)
(***************************************************************************)
EXTENDS Integers, Sequences, FiniteSets, TLC

VARIABLES
    repo_name,          \* Repository.name
    repo_options,       \* Repository.options
    modules,            \* Repository.modules
    mod_name,           \* Module.name
    mod_full_name,      \* Module.full_name
    mod_options,        \* Module.options
    dependencies,       \* Module.dependencies
    rr_options,         \* repository.OptionNameResolver.options
    mr_repo_options,    \* module.OptionNameResolver.repo_options
    mr_module_options,  \* module.OptionNameResolver.module_options
    last                \* the last call: [op, arg, out, pre]

vars == <<repo_name, repo_options, modules, mod_name, mod_full_name,
          mod_options, dependencies, rr_options, mr_repo_options,
          mr_module_options, last>>

(***************************************************************************)
(* Bounds of the model.                                                    *)
(***************************************************************************)
\* longest string passed to verify_module_name / Module.depends
MaxStrLen == 3
\* longest list passed to Module.depends or Repository.add_modules
MaxArgs == 2
\* Module.depends is no longer called once dependencies has this many entries
MaxDeps == 2
\* longest key passed to a resolver's __getitem__
MaxKeyLen == 5

(***************************************************************************)
(* Python values: strings, None, "%s" formatting, str.split.               *)
(***************************************************************************)
Char == {"a", ":"}

RECURSIVE Strings(_)
Strings(n) ==
    IF n = 0 THEN {<<>>}
    ELSE LET S == Strings(n - 1)
         IN  S \cup {Append(s, c) : s \in {t \in S : Len(t) = n - 1}, c \in Char}

\* Python's None; a one-element sequence that is no string over Char
None == <<"None">>

\* "%s" % x
Str(x) == IF x = None THEN <<"N", "o", "n", "e">> ELSE x

\* "%s:%s" % (a, b)
Fmt2(a, b) == Str(a) \o <<":">> \o Str(b)

\* "%s:%s:%s" % (a, b, c)
Fmt3(a, b, c) == Str(a) \o <<":">> \o Str(b) \o <<":">> \o Str(c)

\* s.split(":")
RECURSIVE Split(_)
Split(s) ==
    IF \A i \in 1..Len(s) : s[i] # ":" THEN <<s>>
    ELSE LET i == CHOOSE i \in 1..Len(s) :
                      s[i] = ":" /\ \A j \in 1..(i - 1) : s[j] # ":"
         IN  <<SubSeq(s, 1, i - 1)>> \o Split(SubSeq(s, i + 1, Len(s)))

(***************************************************************************)
(* Python dicts, insertion-ordered: sequences of items [k, v].             *)
(***************************************************************************)
EmptyDict == <<>>

Keys(d) == {d[i].k : i \in 1..Len(d)}

\* k in d
Has(d, k) == k \in Keys(d)

\* d[k], for k in d
Get(d, k) == d[CHOOSE i \in 1..Len(d) : d[i].k = k].v

\* d[k] = v
Put(d, k, v) ==
    IF Has(d, k)
    THEN [i \in 1..Len(d) |-> IF d[i].k = k THEN [k |-> k, v |-> v] ELSE d[i]]
    ELSE Append(d, [k |-> k, v |-> v])

\* d.copy()
Copy(d) == [i \in 1..Len(d) |-> [k |-> d[i].k, v |-> d[i].v]]

\* d.update(e)
RECURSIVE Update(_, _)
Update(d, e) ==
    IF e = <<>> THEN d
    ELSE Update(Put(d, Head(e).k, Head(e).v), Tail(e))

\* repr(d): the items shown, in order, each key with the entry under it
Repr(d) == [i \in 1..Len(d) |-> <<"item", d[i].k, d[i].v>>]

(***************************************************************************)
(* Outcomes of a call: a returned value or a raised exception.             *)
(***************************************************************************)
Returned(v) == [exc |-> "none", fmt |-> "", args |-> <<>>, ret |-> v]

\* exception.py: BlobException(message), message = fmt % args
BlobException(fmt, args) ==
    [exc |-> "BlobException", fmt |-> fmt, args |-> args, ret |-> "NoValue"]

\* exception.py: OptionFormatException(name)
OptionFormatException(name) ==
    [exc |-> "OptionFormatException",
     fmt |-> "Invalid option format for '{}'. Option must contain one (repository option) or two (module option) colons.",
     args |-> <<name>>, ret |-> "NoValue"]

(***************************************************************************)
(* option.Option and its subclasses (lbuild/option.py): constructed with   *)
(* (name, description, default); value starts as default.                  *)
(***************************************************************************)
Option(name, description, default) ==
    [cls |-> "Option", name |-> name, description |-> description,
     value |-> default]

BooleanOption(name, description, default) ==
    [cls |-> "BooleanOption", name |-> name, description |-> description,
     value |-> default]

NumericOption(name, description, default) ==
    [cls |-> "NumericOption", name |-> name, description |-> description,
     value |-> default]

\* utils.listify: a single item becomes a one-element list, a list is kept
Listify(x) == IF x.type = "str" THEN <<x.val>> ELSE x.val

(***************************************************************************)
(* Inputs.                                                                 *)
(***************************************************************************)
OptNames == {<<"a">>, <<"a", "a">>}
\* (description, default) pairs passed to add_option
OptionArgs == {<<"d1", "None">>, <<"d2", "1">>}
OptionClasses == {"Option", "BooleanOption", "NumericOption"}

MakeOption(cls, name, description, default) ==
    CASE cls = "Option" -> Option(name, description, default)
      [] cls = "BooleanOption" -> BooleanOption(name, description, default)
      [] cls = "NumericOption" -> NumericOption(name, description, default)

\* the names set_name is called with: a plain token and one holding a colon
NameInputs == {<<"a">>, <<":">>}

\* the keys of the option maps handed to the resolvers' constructors
MapKeys == {<<"a", ":", "a">>, <<"a", ":", "a", ":", "a">>}

\* every dict over MapKeys, in each order of each set of keys, whose entries
\* are Option objects with a value of the given set
ResolverMaps(values) ==
    LET items == [k : MapKeys, v : {Option(<<"a">>, "d1", x) : x \in values}]
    IN  {d \in UNION {[1..n -> items] : n \in 0..Cardinality(MapKeys)} :
            \A i, j \in 1..Len(d) : i # j => d[i].k # d[j].k}

\* the arguments Module.depends is called with
DependsArgs ==
    {[type |-> "str", val |-> s] : s \in Strings(MaxStrLen)}
    \cup
    {[type |-> "list", val |-> l] :
        l \in UNION {[1..n -> {<<"a", ":", "a">>, <<":">>, <<"a">>, <<":", ":">>}] :
                        n \in 0..MaxArgs}}

(***************************************************************************)
(* Init: the state after Repository(path), Module(repository, filename,    *)
(* path) and both resolvers constructed over empty option maps.            *)
(***************************************************************************)
Init ==
    /\ repo_name = None
    /\ repo_options = EmptyDict
    /\ modules = EmptyDict
    /\ mod_name = None
    /\ mod_full_name = None
    /\ mod_options = EmptyDict
    /\ dependencies = <<>>
    /\ rr_options = EmptyDict
    /\ mr_repo_options = EmptyDict
    /\ mr_module_options = EmptyDict
    /\ last = [op |-> "init", arg |-> <<>>, out |-> Returned("None"), pre |-> <<>>]

(***************************************************************************)
(* Option declaration, module.py:116-136 and repository.py:117-138.        *)
(***************************************************************************)
Module_check_for_duplicates_silent(name) == Returned("None")

\* Module._check_for_duplicates
Module_check_for_duplicates(name) ==
    IF Has(mod_options, name)
    THEN BlobException("Option name '%s' is already defined", <<name>>)
    ELSE Returned("None")

\* Module.add_option / add_boolean_option / add_numeric_option
Module_add_option(cls, name, description, default) ==
    LET chk == Module_check_for_duplicates(name) IN
    /\ mod_options' =
          IF chk.exc = "none"
          THEN Put(mod_options, name, MakeOption(cls, name, description, default))
          ELSE mod_options
    /\ last' = [op |-> "Module.add_option", arg |-> <<cls, name, description, default>>,
                out |-> chk, pre |-> mod_options]
    /\ UNCHANGED <<repo_name, repo_options, modules, mod_name, mod_full_name,
                   dependencies, rr_options, mr_repo_options, mr_module_options>>

\* Repository._check_for_duplicates
Repository_check_for_duplicates(name) ==
    IF Has(repo_options, name)
    THEN BlobException("Option name '%s' is already defined", <<name>>)
    ELSE Returned("None")

\* Repository.add_option / add_boolean_option / add_numeric_option
Repository_add_option(cls, name, description, default) ==
    LET chk == Repository_check_for_duplicates(name) IN
    /\ repo_options' =
          IF chk.exc = "none"
          THEN Put(repo_options, name, MakeOption(cls, name, description, default))
          ELSE repo_options
    /\ last' = [op |-> "Repository.add_option", arg |-> <<cls, name, description, default>>,
                out |-> chk, pre |-> repo_options]
    /\ UNCHANGED <<repo_name, modules, mod_name, mod_full_name, mod_options,
                   dependencies, rr_options, mr_repo_options, mr_module_options>>

NextOptions ==
    \/ \E cls \in OptionClasses, n \in OptNames, a \in OptionArgs :
          Module_add_option(cls, n, a[1], a[2])
    \/ \E cls \in OptionClasses, n \in OptNames, a \in OptionArgs :
          Repository_add_option(cls, n, a[1], a[2])

SpecOptions == Init /\ [][NextOptions]_vars

(***************************************************************************)
(* Module names and dependencies, module.py:16-24 and 138-147.             *)
(***************************************************************************)
verify_module_name_two_or_more(modulename) ==
    IF Len(Split(modulename)) < 2
    THEN BlobException("Modulename '%s' must contain exactly one ':' as separator between repository and module name",
                       <<modulename>>)
    ELSE Returned("None")

\* verify_module_name
verify_module_name(modulename) ==
    IF Len(Split(modulename)) # 2
    THEN BlobException("Modulename '%s' must contain exactly one ':' as separator between repository and module name",
                       <<modulename>>)
    ELSE Returned("None")

RECURSIVE Module_depends_loop_append_first(_, _)
Module_depends_loop_append_first(deps, l) ==
    IF l = <<>> THEN [deps |-> deps, out |-> Returned("None")]
    ELSE LET v == verify_module_name(Head(l)) IN
         IF v.exc # "none" THEN [deps |-> Append(deps, Head(l)), out |-> v]
         ELSE Module_depends_loop_append_first(Append(deps, Head(l)), Tail(l))

\* the for loop of Module.depends: the list after the loop and how it ended
RECURSIVE Module_depends_loop(_, _)
Module_depends_loop(deps, l) ==
    IF l = <<>> THEN [deps |-> deps, out |-> Returned("None")]
    ELSE LET v == verify_module_name(Head(l)) IN
         IF v.exc # "none" THEN [deps |-> deps, out |-> v]
         ELSE Module_depends_loop(Append(deps, Head(l)), Tail(l))

\* Module.depends
Module_depends(arg) ==
    LET r == Module_depends_loop(dependencies, Listify(arg)) IN
    /\ Len(dependencies) < MaxDeps
    /\ dependencies' = r.deps
    /\ last' = [op |-> "Module.depends", arg |-> arg, out |-> r.out,
                pre |-> dependencies]
    /\ UNCHANGED <<repo_name, repo_options, modules, mod_name, mod_full_name,
                   mod_options, rr_options, mr_repo_options, mr_module_options>>

NextDepends == \E arg \in DependsArgs : Module_depends(arg)

SpecDepends == Init /\ [][NextDepends]_vars

(***************************************************************************)
(* Names, repository.py:69-71 and module.py:109-111.                       *)
(***************************************************************************)
\* Repository.set_name
Repository_set_name(name) ==
    /\ repo_name' = name
    /\ last' = [op |-> "Repository.set_name", arg |-> name,
                out |-> Returned("None"), pre |-> repo_name]
    /\ UNCHANGED <<repo_options, modules, mod_name, mod_full_name, mod_options,
                   dependencies, rr_options, mr_repo_options, mr_module_options>>

\* Module.set_name
Module_set_name(name) ==
    /\ mod_name' = name
    /\ mod_full_name' = Fmt2(repo_name, name)
    /\ last' = [op |-> "Module.set_name", arg |-> name,
                out |-> Returned("None"), pre |-> mod_name]
    /\ UNCHANGED <<repo_name, repo_options, modules, mod_options, dependencies,
                   rr_options, mr_repo_options, mr_module_options>>

(***************************************************************************)
(* Repository-scoped resolver, repository.py:18-51.                        *)
(***************************************************************************)
\* the resolver object: its fields, repository read through the reference
RepoResolverSelf ==
    [repository |-> [name |-> repo_name], options |-> rr_options]

\* OptionNameResolver.__init__(repository, options)
RepoResolver_init(options) ==
    /\ rr_options' = options
    /\ last' = [op |-> "RepoResolver.init", arg |-> options,
                out |-> Returned("None"), pre |-> rr_options]
    /\ UNCHANGED <<repo_name, repo_options, modules, mod_name, mod_full_name,
                   mod_options, dependencies, mr_repo_options, mr_module_options>>

RepoResolver_getitem_value_no_default(self, key) ==
    LET o == Split(key) IN
    IF Len(o) # 2
    THEN BlobException("Option name '%s' must contain exactly one colon to separate repository and option name.",
                       <<>>)
    ELSE IF Has(self.options, key)
         THEN Returned(Get(self.options, key).value)
         ELSE BlobException("Unknown option name '%s'", <<key>>)

\* OptionNameResolver.__getitem__(key): the outcome of self[key]
RepoResolver_getitem_value(self, key) ==
    LET o == Split(key) IN
    IF Len(o) # 2
    THEN BlobException("Option name '%s' must contain exactly one colon to separate repository and option name.",
                       <<>>)
    ELSE LET repo == o[1]
             option == o[2]
             key2 == IF repo = <<>> THEN Fmt2(self.repository.name, option) ELSE key
         IN  IF Has(self.options, key2)
             THEN Returned(Get(self.options, key2).value)
             ELSE BlobException("Unknown option name '%s'", <<key2>>)

RepoResolver_getitem(key) ==
    /\ last' = [op |-> "RepoResolver.getitem", arg |-> key,
                out |-> RepoResolver_getitem_value(RepoResolverSelf, key),
                pre |-> rr_options]
    /\ UNCHANGED <<repo_name, repo_options, modules, mod_name, mod_full_name,
                   mod_options, dependencies, rr_options, mr_repo_options,
                   mr_module_options>>

\* OptionNameResolver.__repr__
RepoResolver_repr ==
    /\ last' = [op |-> "RepoResolver.repr", arg |-> <<>>,
                out |-> Returned(Repr(rr_options)), pre |-> rr_options]
    /\ UNCHANGED <<repo_name, repo_options, modules, mod_name, mod_full_name,
                   mod_options, dependencies, rr_options, mr_repo_options,
                   mr_module_options>>

\* OptionNameResolver.__len__
RepoResolver_len ==
    /\ last' = [op |-> "RepoResolver.len", arg |-> <<>>,
                out |-> Returned(Len(rr_options)), pre |-> rr_options]
    /\ UNCHANGED <<repo_name, repo_options, modules, mod_name, mod_full_name,
                   mod_options, dependencies, rr_options, mr_repo_options,
                   mr_module_options>>

NextRepoResolver ==
    \/ \E name \in NameInputs : Repository_set_name(name)
    \/ \E options \in ResolverMaps({"0", "1"}) : RepoResolver_init(options)
    \/ \E key \in Strings(MaxKeyLen) : RepoResolver_getitem(key)
    \/ RepoResolver_repr
    \/ RepoResolver_len

SpecRepoResolver == Init /\ [][NextRepoResolver]_vars

(***************************************************************************)
(* Module-scoped resolver, module.py:27-73.                                *)
(***************************************************************************)
\* the resolver object: its fields, repository and module read through
\* the references
ModResolverSelf ==
    [repository |-> [name |-> repo_name], module |-> [name |-> mod_name],
     repo_options |-> mr_repo_options, module_options |-> mr_module_options]

\* OptionNameResolver.__init__(repository, module, repo_options, module_options)
ModResolver_init(ro, mo) ==
    /\ mr_repo_options' = ro
    /\ mr_module_options' = mo
    /\ last' = [op |-> "ModResolver.init", arg |-> <<ro, mo>>,
                out |-> Returned("None"),
                pre |-> <<mr_repo_options, mr_module_options>>]
    /\ UNCHANGED <<repo_name, repo_options, modules, mod_name, mod_full_name,
                   mod_options, dependencies, rr_options>>

\* __getitem__ with "except BlobException" in the place of "except KeyError"
ModResolver_getitem_value_catch_all(self, key) ==
    LET option_parts == Split(key) IN
    IF Len(option_parts) = 2
    THEN LET repo == option_parts[1]
             option == option_parts[2]
             key2 == IF repo = <<>> THEN Fmt2(self.repository.name, option) ELSE key
         IN  IF Has(self.repo_options, key2)
             THEN Returned(Get(self.repo_options, key2).value)
             ELSE BlobException("Unknown option name '%s'", <<key2>>)
    ELSE IF Len(option_parts) = 3
    THEN LET repo == IF option_parts[1] = <<>> THEN self.repository.name
                     ELSE option_parts[1]
             module == IF option_parts[2] = <<>> THEN self.module.name
                       ELSE option_parts[2]
             option == option_parts[3]
             key3 == Fmt3(repo, module, option)
         IN  IF Has(self.module_options, key3)
             THEN Returned(Get(self.module_options, key3).value)
             ELSE BlobException("Unknown option name '%s'", <<key3>>)
    ELSE BlobException("Unknown option name '%s'", <<key>>)

\* __getitem__ that fills in the module name only when it filled in the
\* repository name
ModResolver_getitem_value_nested_default(self, key) ==
    LET option_parts == Split(key) IN
    IF Len(option_parts) = 2
    THEN LET repo == option_parts[1]
             option == option_parts[2]
             key2 == IF repo = <<>> THEN Fmt2(self.repository.name, option) ELSE key
         IN  IF Has(self.repo_options, key2)
             THEN Returned(Get(self.repo_options, key2).value)
             ELSE BlobException("Unknown option name '%s'", <<key2>>)
    ELSE IF Len(option_parts) = 3
    THEN LET repo == IF option_parts[1] = <<>> THEN self.repository.name
                     ELSE option_parts[1]
             module == IF option_parts[1] = <<>> /\ option_parts[2] = <<>> THEN self.module.name
                       ELSE option_parts[2]
             option == option_parts[3]
             key3 == Fmt3(repo, module, option)
         IN  IF Has(self.module_options, key3)
             THEN Returned(Get(self.module_options, key3).value)
             ELSE BlobException("Unknown option name '%s'", <<key3>>)
    ELSE OptionFormatException(key)

\* OptionNameResolver.__getitem__(key): the outcome of self[key]
ModResolver_getitem_value(self, key) ==
    LET option_parts == Split(key) IN
    IF Len(option_parts) = 2
    THEN LET repo == option_parts[1]
             option == option_parts[2]
             key2 == IF repo = <<>> THEN Fmt2(self.repository.name, option) ELSE key
         IN  IF Has(self.repo_options, key2)
             THEN Returned(Get(self.repo_options, key2).value)
             ELSE BlobException("Unknown option name '%s'", <<key2>>)
    ELSE IF Len(option_parts) = 3
    THEN LET repo == IF option_parts[1] = <<>> THEN self.repository.name
                     ELSE option_parts[1]
             module == IF option_parts[2] = <<>> THEN self.module.name
                       ELSE option_parts[2]
             option == option_parts[3]
             key3 == Fmt3(repo, module, option)
         IN  IF Has(self.module_options, key3)
             THEN Returned(Get(self.module_options, key3).value)
             ELSE BlobException("Unknown option name '%s'", <<key3>>)
    ELSE OptionFormatException(key)

ModResolver_getitem(key) ==
    /\ last' = [op |-> "ModResolver.getitem", arg |-> key,
                out |-> ModResolver_getitem_value(ModResolverSelf, key),
                pre |-> <<mr_repo_options, mr_module_options>>]
    /\ UNCHANGED <<repo_name, repo_options, modules, mod_name, mod_full_name,
                   mod_options, dependencies, rr_options, mr_repo_options,
                   mr_module_options>>

\* o = d: a second reference to the same dict
DictAlias(d) == [same |-> TRUE, items |-> d]

\* o = d.copy(): a new dict with the items of d
DictCopy(d) == [same |-> FALSE, items |-> Copy(d)]

\* OptionNameResolver.__repr__: o, the merged dict, and the text returned
ModResolver_repr_value(self) ==
    LET o == DictCopy(self.module_options)
        merged == Update(o.items, self.repo_options)
    IN  [module_options |-> IF o.same THEN merged ELSE self.module_options,
         out |-> Returned(Repr(merged))]

ModResolver_repr ==
    LET r == ModResolver_repr_value(ModResolverSelf) IN
    /\ mr_module_options' = r.module_options
    /\ last' = [op |-> "ModResolver.repr", arg |-> <<>>, out |-> r.out,
                pre |-> <<mr_repo_options, mr_module_options>>]
    /\ UNCHANGED <<repo_name, repo_options, modules, mod_name, mod_full_name,
                   mod_options, dependencies, rr_options, mr_repo_options>>

\* OptionNameResolver.__len__
ModResolver_len ==
    /\ last' = [op |-> "ModResolver.len", arg |-> <<>>,
                out |-> Returned(Len(mr_module_options) + Len(mr_repo_options)),
                pre |-> <<mr_repo_options, mr_module_options>>]
    /\ UNCHANGED <<repo_name, repo_options, modules, mod_name, mod_full_name,
                   mod_options, dependencies, rr_options, mr_repo_options,
                   mr_module_options>>

NextModResolver ==
    \/ \E name \in NameInputs : Repository_set_name(name)
    \/ \E name \in NameInputs : Module_set_name(name)
    \/ \E ro \in ResolverMaps({"0"}), mo \in ResolverMaps({"1"}) :
          ModResolver_init(ro, mo)
    \/ \E key \in Strings(MaxKeyLen) : ModResolver_getitem(key)
    \/ ModResolver_repr
    \/ ModResolver_len

SpecModResolver == Init /\ [][NextModResolver]_vars

(***************************************************************************)
(* Module files, repository.py:73-115.  A path is [abs, parts]; the file   *)
(* system is the environment the calls read.                               *)
(***************************************************************************)
Path(abs, parts) == [abs |-> abs, parts |-> parts]

\* Repository.path, the constructor's argument
RepositoryPath == Path(TRUE, <<"r">>)

\* the directories of the file system, in the order os.walk visits them
WalkDirs == <<Path(TRUE, <<"r">>), Path(TRUE, <<"r", "d">>), Path(TRUE, <<"r", "e">>)>>

\* the regular files of the file system
Files == {Path(TRUE, <<"r", "x.lb">>),
          Path(TRUE, <<"r", "d", "module.lb">>),
          Path(TRUE, <<"r", "e", "module.lb">>)}

\* os.path.isabs
isabs(path) == path.abs

\* os.path.join(a, b)
join(a, b) == IF isabs(b) THEN b ELSE Path(a.abs, a.parts \o b.parts)

\* os.path.normpath: "." dropped, ".." takes the component before it
RECURSIVE normparts(_, _, _)
normparts(abs, parts, acc) ==
    IF parts = <<>> THEN acc
    ELSE LET c == Head(parts) IN
         IF c = "." THEN normparts(abs, Tail(parts), acc)
         ELSE IF c = ".."
         THEN IF acc # <<>> /\ acc[Len(acc)] # ".."
              THEN normparts(abs, Tail(parts), SubSeq(acc, 1, Len(acc) - 1))
              ELSE IF abs THEN normparts(abs, Tail(parts), acc)
              ELSE normparts(abs, Tail(parts), Append(acc, c))
         ELSE normparts(abs, Tail(parts), Append(acc, c))

normpath(path) ==
    LET parts == normparts(path.abs, path.parts, <<>>) IN
    IF parts = <<>> /\ ~path.abs THEN Path(FALSE, <<".">>)
    ELSE Path(path.abs, parts)

\* os.path.isfile
isfile(path) == path \in Files

\* Repository._relocate
Repository_relocate(path) ==
    normpath(IF ~isabs(path) THEN join(RepositoryPath, path) ELSE path)

\* the for loop of Repository.add_modules: the dict after it, how it ended
RECURSIVE Repository_add_modules_loop(_, _)
Repository_add_modules_loop(mods, module_files) ==
    IF module_files = <<>> THEN [modules |-> mods, out |-> Returned("None")]
    ELSE LET file == Repository_relocate(Head(module_files)) IN
         IF ~isfile(file)
         THEN [modules |-> mods,
               out |-> BlobException("Module file not found '%s'", <<file>>)]
         ELSE Repository_add_modules_loop(Put(mods, file, None), Tail(module_files))

\* Repository.add_modules
Repository_add_modules(arg) ==
    LET r == Repository_add_modules_loop(modules, Listify(arg)) IN
    /\ modules' = r.modules
    /\ last' = [op |-> "Repository.add_modules", arg |-> arg, out |-> r.out,
                pre |-> modules]
    /\ UNCHANGED <<repo_name, repo_options, mod_name, mod_full_name, mod_options,
                   dependencies, rr_options, mr_repo_options, mr_module_options>>

\* p is basepath or lies below it
IsUnder(p, basepath) ==
    /\ p.abs = basepath.abs
    /\ Len(p.parts) >= Len(basepath.parts)
    /\ SubSeq(p.parts, 1, Len(basepath.parts)) = basepath.parts

\* the for loop of Repository.find_modules over os.walk(basepath)
RECURSIVE Repository_find_modules_loop(_, _, _, _)
Repository_find_modules_loop(mods, dirs, basepath, modulefile) ==
    IF dirs = <<>> THEN mods
    ELSE LET path == Head(dirs)
             found == /\ IsUnder(path, basepath)
                      /\ isfile(join(path, Path(FALSE, <<modulefile>>)))
         IN  Repository_find_modules_loop(
                 IF found
                 THEN Put(mods, normpath(join(path, Path(FALSE, <<modulefile>>))), None)
                 ELSE mods,
                 Tail(dirs), basepath, modulefile)

\* Repository.find_modules
Repository_find_modules(basepath, modulefile) ==
    /\ modules' = Repository_find_modules_loop(modules, WalkDirs,
                       Repository_relocate(basepath), modulefile)
    /\ last' = [op |-> "Repository.find_modules", arg |-> <<basepath, modulefile>>,
                out |-> Returned("None"), pre |-> modules]
    /\ UNCHANGED <<repo_name, repo_options, mod_name, mod_full_name, mod_options,
                   dependencies, rr_options, mr_repo_options, mr_module_options>>

\* the declaration executor stores the Module built from a registered file
Executor_store_module(file) ==
    /\ Has(modules, file)
    /\ Get(modules, file) = None
    /\ modules' = Put(modules, file, <<"Module", file>>)
    /\ last' = [op |-> "Executor.store_module", arg |-> file,
                out |-> Returned("None"), pre |-> modules]
    /\ UNCHANGED <<repo_name, repo_options, mod_name, mod_full_name, mod_options,
                   dependencies, rr_options, mr_repo_options, mr_module_options>>

\* the file names add_modules is called with
PathInputs ==
    {Path(FALSE, <<"x.lb">>), Path(FALSE, <<".", "x.lb">>),
     Path(FALSE, <<"d", "module.lb">>), Path(TRUE, <<"r", "d", "..", "x.lb">>),
     Path(FALSE, <<"missing.lb">>), Path(FALSE, <<"d">>)}

AddModulesArgs ==
    {[type |-> "str", val |-> f] : f \in PathInputs}
    \cup
    {[type |-> "list", val |-> l] :
        l \in UNION {[1..n -> PathInputs] : n \in 0..MaxArgs}}

NextModules ==
    \/ \E arg \in AddModulesArgs : Repository_add_modules(arg)
    \/ \E basepath \in {Path(FALSE, <<>>), Path(FALSE, <<"d">>), Path(FALSE, <<"nowhere">>)},
          modulefile \in {"module.lb", "x.lb"} :
          Repository_find_modules(basepath, modulefile)
    \/ \E file \in Files : Executor_store_module(file)

SpecModules == Init /\ [][NextModules]_vars

(***************************************************************************)
(* The whole core: every call of the declaration pass and of the           *)
(* resolution phase.                                                       *)
(***************************************************************************)
Next ==
    \/ NextOptions
    \/ NextDepends
    \/ NextRepoResolver
    \/ NextModResolver
    \/ NextModules

Spec == Init /\ [][Next]_vars

(***************************************************************************)
(* Helpers of the properties: segments of a key found by the positions of  *)
(* its colons.                                                             *)
(***************************************************************************)
\* the number of colons of s
ColonCount(s) == Cardinality({i \in 1..Len(s) : s[i] = ":"})

IsIdent(s) == ColonCount(s) = 0

Idents(n) == {s \in Strings(n) : IsIdent(s)}

\* position of the k-th colon of s; 0 for k = 0, Len(s) + 1 past the last
ColonPos(s, k) ==
    IF k = 0 THEN 0
    ELSE IF k > ColonCount(s) THEN Len(s) + 1
    ELSE CHOOSE p \in 1..Len(s) :
            s[p] = ":" /\ Cardinality({q \in 1..(p - 1) : s[q] = ":"}) = k - 1

\* the k-th colon-separated segment of s
Segment(s, k) == SubSeq(s, ColonPos(s, k - 1) + 1, ColonPos(s, k) - 1)

\* what a lookup of the fully-qualified key fq in the map d gives
Resolved(d, fq) ==
    IF Has(d, fq) THEN Returned(Get(d, fq).value)
    ELSE BlobException("Unknown option name '%s'", <<fq>>)

\* what an add_*_option call, recorded in last, leaves in the map "now"
AddOptionContract(now) ==
    LET name == last.arg[2] IN
    IF Has(last.pre, name)
    THEN /\ last.out.exc = "BlobException"
         /\ now = last.pre
    ELSE /\ last.out.exc = "none"
         /\ Len(now) = Len(last.pre) + 1
         /\ SubSeq(now, 1, Len(last.pre)) = last.pre
         /\ now[Len(now)].k = name
         /\ now[Len(now)].v.cls = last.arg[1]
         /\ now[Len(now)].v.value = last.arg[4]

(***************************************************************************)
(* C1: on either scope and for each of add_option, add_boolean_option and  *)
(* add_numeric_option, a name that is already a key of the scope's option  *)
(* map makes the call raise the generic BlobException and leaves the map   *)
(* exactly as it was; an absent name adds exactly one entry, under that    *)
(* name, after the existing entries.                                       *)
(***************************************************************************)
C1_DuplicateOptionRejected ==
    /\ last.op = "Module.add_option" => AddOptionContract(mod_options)
    /\ last.op = "Repository.add_option" => AddOptionContract(repo_options)

\* a second add under a registered name, with another default, has failed
C1_Witness ==
    /\ last.op = "Module.add_option"
    /\ Has(last.pre, last.arg[2])
    /\ last.out.exc = "BlobException"
    /\ Get(mod_options, last.arg[2]).value # last.arg[4]
    /\ Len(mod_options) = 2

(***************************************************************************)
(* C2: verify_module_name(s) raises the generic BlobException when s holds *)
(* a number of colons other than one and succeeds when it holds exactly    *)
(* one (an empty segment included); Module.depends(s) then appends s,      *)
(* unchanged, as the new last element and keeps the earlier elements.      *)
(***************************************************************************)
C2_ModuleNameGrammar ==
    (last.op = "Module.depends" /\ last.arg.type = "str") =>
        LET s == last.arg.val IN
        IF ColonCount(s) = 1
        THEN /\ last.out.exc = "none"
             /\ dependencies = Append(last.pre, s)
        ELSE /\ last.out.exc = "BlobException"
             /\ last.out.args = <<s>>
             /\ dependencies = last.pre

\* depends(":a"), one colon and an empty segment, appended after an entry
C2_Witness ==
    /\ last.op = "Module.depends"
    /\ last.arg = [type |-> "str", val |-> <<":", "a">>]
    /\ last.out.exc = "none"
    /\ Len(last.pre) >= 1
    /\ dependencies[Len(dependencies)] = <<":", "a">>

\* 1-based index of the first element of l without exactly one colon, or 0
FirstBad(l) ==
    IF \A j \in 1..Len(l) : ColonCount(l[j]) = 1 THEN 0
    ELSE CHOOSE j \in 1..Len(l) :
            ColonCount(l[j]) # 1 /\ \A h \in 1..(j - 1) : ColonCount(l[h]) = 1

(***************************************************************************)
(* C10: Module.depends called with a sequence whose first element without  *)
(* exactly one colon is at position i raises the generic BlobException     *)
(* after appending exactly the i elements before it, in order and after    *)
(* the existing entries, and nothing from position i on; so every string   *)
(* in dependencies always holds exactly one colon.                         *)
(***************************************************************************)
C10_DependsPartialAppend ==
    /\ \A j \in 1..Len(dependencies) : ColonCount(dependencies[j]) = 1
    /\ (last.op = "Module.depends" /\ last.arg.type = "list") =>
          LET l == last.arg.val
              b == FirstBad(l)
          IN  IF b = 0
              THEN /\ last.out.exc = "none"
                   /\ dependencies = last.pre \o l
              ELSE /\ last.out.exc = "BlobException"
                   /\ last.out.args = <<l[b]>>
                   /\ dependencies = last.pre \o SubSeq(l, 1, b - 1)

\* a list failed at its second element after its first was appended
C10_Witness ==
    /\ last.op = "Module.depends"
    /\ last.arg.type = "list"
    /\ Len(last.arg.val) = 2
    /\ FirstBad(last.arg.val) = 2
    /\ last.out.exc = "BlobException"
    /\ Len(last.pre) >= 1
    /\ Len(dependencies) = Len(last.pre) + 1

(***************************************************************************)
(* C3: repository-scoped resolver: a key that does not split on ':' into   *)
(* exactly 2 segments fails with OptionFormatException, which carries the  *)
(* raw key, and not with the plain BlobException.                          *)
(***************************************************************************)
C3_RepoFormatError ==
    (last.op = "RepoResolver.getitem" /\ ColonCount(last.arg) # 1) =>
        /\ last.out.exc = "OptionFormatException"
        /\ last.out.args = <<last.arg>>

(***************************************************************************)
(* C4: module-scoped resolver: a key with a number of segments other than  *)
(* 2 or 3 fails with OptionFormatException naming that key, never with the *)
(* unknown-option error; a key with 2 or 3 segments whose fully-qualified  *)
(* form is absent from the addressed map fails with the generic            *)
(* BlobException "Unknown option name", never with the format error.       *)
(***************************************************************************)
C4_ModErrorKinds ==
    last.op = "ModResolver.getitem" =>
        LET key == last.arg
            n == ColonCount(key) + 1
            repo == IF Segment(key, 1) = <<>> THEN repo_name ELSE Segment(key, 1)
            module == IF Segment(key, 2) = <<>> THEN mod_name ELSE Segment(key, 2)
            fq == IF n = 2 THEN Fmt2(repo, Segment(key, 2))
                  ELSE Fmt3(repo, module, Segment(key, 3))
            map == IF n = 2 THEN mr_repo_options ELSE mr_module_options
        IN  IF n \notin {2, 3}
            THEN /\ last.out.exc = "OptionFormatException"
                 /\ last.out.args = <<key>>
            ELSE ~Has(map, fq) =>
                 /\ last.out.exc = "BlobException"
                 /\ last.out.fmt = "Unknown option name '%s'"
                 /\ last.out.args = <<fq>>

\* "a:a:" has 3 segments and is absent from a module map that has entries
C4_Witness ==
    /\ last.op = "ModResolver.getitem"
    /\ last.arg = <<"a", ":", "a", ":">>
    /\ last.out.exc = "BlobException"
    /\ Len(mr_module_options) >= 1
    /\ Len(mr_repo_options) >= 1

(***************************************************************************)
(* C5: module-scoped resolver owned by repository R and module M (names    *)
(* that are tokens of the key grammar, without ':'): for every option name *)
(* opt, "::opt", "R::opt", ":M:opt" and "R:M:opt" all give the value of    *)
(* the entry "R:M:opt" of the module option map, or the unknown-option     *)
(* error when it is absent; the repository option map plays no part.       *)
(***************************************************************************)
C5_EmptySegmentsDefault ==
    LET R == Str(repo_name)
        M == Str(mod_name)
    IN  (IsIdent(R) /\ IsIdent(M)) =>
        \A opt \in Idents(2) :
            LET expected == Resolved(mr_module_options, R \o <<":">> \o M \o <<":">> \o opt)
            IN  \A key \in {<<":", ":">> \o opt,
                             R \o <<":", ":">> \o opt,
                             <<":">> \o M \o <<":">> \o opt,
                             R \o <<":">> \o M \o <<":">> \o opt} :
                    ModResolver_getitem_value(ModResolverSelf, key) = expected

\* "::a" returned the module map's value while the repository map holds
\* the same key with another value
C5_Witness ==
    /\ last.op = "ModResolver.getitem"
    /\ last.arg = <<":", ":", "a">>
    /\ repo_name = <<"a">>
    /\ mod_name = <<"a">>
    /\ last.out = Returned("1")
    /\ Has(mr_repo_options, <<"a", ":", "a", ":", "a">>)

(***************************************************************************)
(* C6: repository-scoped resolver owned by repository R (a token without   *)
(* ':'): for every option name opt, ":opt" and "R:opt" both give the value *)
(* (not the Option object) of the entry "R:opt", or both fail with the     *)
(* generic unknown-option error when it is absent; a key with a non-empty  *)
(* repository segment is looked up as given.                               *)
(***************************************************************************)
C6_RepoEmptySegmentDefault ==
    LET R == Str(repo_name) IN
    \A opt \in Idents(2) :
        /\ IsIdent(R) =>
              \A key \in {<<":">> \o opt, R \o <<":">> \o opt} :
                  RepoResolver_getitem_value(RepoResolverSelf, key)
                      = Resolved(rr_options, R \o <<":">> \o opt)
        /\ \A r \in Idents(2) \ {<<>>} :
              RepoResolver_getitem_value(RepoResolverSelf, r \o <<":">> \o opt)
                  = Resolved(rr_options, r \o <<":">> \o opt)

\* ":a" returned the value of the entry "a:a" of a resolver owned by "a"
C6_Witness ==
    /\ last.op = "RepoResolver.getitem"
    /\ last.arg = <<":", "a">>
    /\ repo_name = <<"a">>
    /\ Has(rr_options, <<"a", ":", "a">>)
    /\ last.out = Returned(Get(rr_options, <<"a", ":", "a">>).value)

(***************************************************************************)
(* C7: module-scoped resolver: describe() shows the module option map with *)
(* the repository option map laid over it: the keys shown are the union of *)
(* both key sets, a key of both maps shows the repository map's entry, and *)
(* neither map is changed, so every lookup gives afterwards what it gave   *)
(* before.                                                                 *)
(***************************************************************************)
C7_DescribeMergedView ==
    last.op = "ModResolver.repr" =>
        LET shown == last.out.ret
            ro == last.pre[1]
            mo == last.pre[2]
            before == [ModResolverSelf EXCEPT !.repo_options = ro,
                                              !.module_options = mo]
        IN  /\ {shown[i][2] : i \in 1..Len(shown)} = Keys(mo) \cup Keys(ro)
            /\ Len(shown) = Cardinality(Keys(mo) \cup Keys(ro))
            /\ \A i \in 1..Len(shown) :
                  shown[i][3] = IF Has(ro, shown[i][2]) THEN Get(ro, shown[i][2])
                                ELSE Get(mo, shown[i][2])
            /\ mr_repo_options = ro
            /\ mr_module_options = mo
            /\ \A key \in Strings(MaxKeyLen) :
                  ModResolver_getitem_value(ModResolverSelf, key)
                      = ModResolver_getitem_value(before, key)

\* describe() ran over two maps that share a key with different entries
C7_Witness ==
    /\ last.op = "ModResolver.repr"
    /\ \E k \in Keys(mr_repo_options) \cap Keys(mr_module_options) :
          Get(mr_repo_options, k) # Get(mr_module_options, k)
    /\ Len(last.out.ret) = 2

(***************************************************************************)
(* C8: whenever the module's name has been set, Module.full_name equals    *)
(* "<repository.name>:<module.name>" for the current name of the           *)
(* repository, the names the module-scoped resolver substitutes for empty  *)
(* segments.                                                               *)
(***************************************************************************)
C8_FullNameCurrent ==
    mod_name # None => mod_full_name = Fmt2(repo_name, mod_name)

(***************************************************************************)
(* C9: an entry of Repository.modules only moves from the placeholder None *)
(* to a populated Module: no add_modules or find_modules call puts an      *)
(* entry that holds a Module back to None, and no such call removes an     *)
(* entry.                                                                  *)
(***************************************************************************)
C9_ModulesOnlyPopulate ==
    last.op \in {"Repository.add_modules", "Repository.find_modules"} =>
        \A file \in Keys(last.pre) :
            /\ Has(modules, file)
            /\ Get(last.pre, file) # None => Get(modules, file) = Get(last.pre, file)

====
